---- MODULE Spec2Model ----
(***************************************************************************)
(* Model of the pydantic-ai filesystem agent:                              *)
(*   - filtered_message_history, the history windower of                   *)
(*     agent_test_fixed.py, and the chat loop that feeds it;               *)
(*   - the line-delimited JSON server of mcp_servers/filesystem_mcp_fixed  *)
(*     with its four filesystem handlers;                                  *)
(*   - the four handlers of mcp_servers/filesystem_mcp (FastMCP);          *)
(*   - ToolStateTracker, run_with_iter and main of agent_test_iter.py.     *)
(***************************************************************************)
EXTENDS Integers, Sequences, FiniteSets, TLC

VARIABLES
    \* ---- windower (filtered_message_history called once) ----
    messages,               \* result.all_messages() of the call
    limit,                  \* Optional[int]: <<>> is None, <<n>> is the int n
    include_tool_messages,  \* bool argument
    result_messages,        \* the returned list, <<>> wrapped: None before the call
    \* ---- chat loop of agent_test_fixed.main ----
    result,                 \* stored run result: None or Some(all_messages)
    filtered_messages,      \* history handed to the model in the current turn
    turns,                  \* number of turns started
    outcome,                \* what the last turn printed
    \* ---- stdio server of filesystem_mcp_fixed.main ----
    state,                  \* "AwaitingLine" | "Handling" | "ShuttingDown"
    line,                   \* the line returned by the last readline()
    readLog,                \* every line read so far, in order
    stdoutBuf,              \* printed but not yet flushed response lines
    delivered,              \* response lines flushed to the client
    fs,                     \* the filesystem: path -> entry
    \* ---- the four handlers of either server, called one at a time ----
    impl,                   \* "filesystem_mcp" | "filesystem_mcp_fixed"
    disk,                   \* the filesystem the handlers work on
    call,                   \* None or Some([tool, args, outcome]): the last call
    ncalls,                 \* number of calls made
    \* ---- run_with_iter and main of agent_test_iter.py ----
    message_history,        \* main's history list
    user_input,             \* the input of the current turn
    pc,                     \* "prompt" | "iterating" | "done"
    tracker,                \* the ToolStateTracker of the current turn
    console,                \* what the turn printed, in order
    returned,               \* None or Some(<<complete_output, history>>)
    nodes,                  \* nodes the agent run has yielded in this turn
    runs                    \* number of turns started

vars == <<messages, limit, include_tool_messages, result_messages,
          result, filtered_messages, turns, outcome,
          state, line, readLog, stdoutBuf, delivered, fs,
          impl, disk, call, ncalls,
          message_history, user_input, pc, tracker, console, returned,
          nodes, runs>>

windowVars == <<messages, limit, include_tool_messages, result_messages>>
chatVars   == <<result, filtered_messages, turns, outcome>>
serverVars == <<state, line, readLog, stdoutBuf, delivered, fs>>
toolVars   == <<impl, disk, call, ncalls>>
driverVars == <<message_history, user_input, pc, tracker, console, returned,
                nodes, runs>>

\* Optional values
None == <<>>
Some(x) == <<x>>

Max(S) == CHOOSE x \in S : \A y \in S : y <= x
Min2(a, b) == IF a <= b THEN a ELSE b

(***************************************************************************)
(* Messages: a message is a record with an ordered sequence of parts.      *)
(***************************************************************************)
\* bounds of the windower's inputs
MaxHistory == 4
MaxLimit == 3
ToolCallIds == {"a", "b"}

SystemPromptPart == [kind |-> "SystemPrompt", tool_call_id |-> ""]
UserPromptPart == [kind |-> "UserPrompt", tool_call_id |-> ""]
TextPart == [kind |-> "Text", tool_call_id |-> ""]
ToolCallPart(id) == [kind |-> "ToolCall", tool_call_id |-> id]
ToolReturnPart(id) == [kind |-> "ToolReturn", tool_call_id |-> id]

ModelMessage(parts) == [parts |-> parts]

HasPart(msg, kinds) == \E k \in 1..Len(msg.parts) : msg.parts[k].kind \in kinds

\* the messages histories are built from: single parts and mixes of
\* Text, ToolCall and ToolReturn parts
HistoryMessages ==
    {ModelMessage(<<SystemPromptPart>>), ModelMessage(<<UserPromptPart>>),
     ModelMessage(<<TextPart>>),
     ModelMessage(<<TextPart, ToolCallPart("a")>>),
     ModelMessage(<<ToolCallPart("a"), ToolCallPart("b")>>),
     ModelMessage(<<ToolReturnPart("a"), ToolReturnPart("b")>>),
     ModelMessage(<<ToolReturnPart("a"), ToolCallPart("b")>>)}
    \cup {ModelMessage(<<ToolCallPart(id)>>) : id \in ToolCallIds}
    \cup {ModelMessage(<<ToolReturnPart(id)>>) : id \in ToolCallIds}

SeqsUpTo(S, n) == UNION {[1..k -> S] : k \in 0..n}

\* pairing invariant of a message list: every ToolReturn part has a ToolCall
\* part with the same tool_call_id in the same or an earlier message
Paired(ms) ==
    \A i \in 1..Len(ms) : \A k \in 1..Len(ms[i].parts) :
        ms[i].parts[k].kind = "ToolReturn" =>
            \E j \in 1..i : \E q \in 1..Len(ms[j].parts) :
                /\ ms[j].parts[q].kind = "ToolCall"
                /\ ms[j].parts[q].tool_call_id = ms[i].parts[k].tool_call_id

IsSystem(msg) == HasPart(msg, {"SystemPrompt"})
IsToolMessage(msg) == HasPart(msg, {"ToolCall", "ToolReturn"})

\* line 79: the first message with a SystemPromptPart, or None
system_message(ms) ==
    LET sys == SelectSeq(ms, IsSystem)
    IN IF Len(sys) = 0 THEN None ELSE Some(sys[1])

\* lines 82-86
non_system_messages(ms, incl) ==
    LET rest == SelectSeq(ms, LAMBDA m : ~IsSystem(m))
    IN IF ~incl THEN SelectSeq(rest, LAMBDA m : ~IsToolMessage(m)) ELSE rest

\* lines 91-99: tool_call_ids[id] is the index of the LAST message holding a
\* ToolCall part with that id (later assignments overwrite earlier ones)
CallIndices(rest, id) ==
    {i \in 1..Len(rest) : \E k \in 1..Len(rest[i].parts) :
        /\ rest[i].parts[k].kind = "ToolCall"
        /\ rest[i].parts[k].tool_call_id = id}

\* a map that counts the messages from 0
tool_call_ids_from_zero(rest) ==
    [id \in {x \in ToolCallIds : CallIndices(rest, x) # {}} |->
        Max(CallIndices(rest, id)) - 1]

tool_call_ids(rest) ==
    [id \in {x \in ToolCallIds : CallIndices(rest, x) # {}} |->
        Max(CallIndices(rest, id))]

\* lines 108-110: the call indices one included message adds
RepairOf(rest, i) ==
    LET ids == tool_call_ids(rest)
    IN {ids[rest[i].parts[k].tool_call_id] :
          k \in {q \in 1..Len(rest[i].parts) :
                   /\ rest[i].parts[q].kind = "ToolReturn"
                   /\ rest[i].parts[q].tool_call_id \in DOMAIN ids}}

\* lines 106-110: one ascending pass over all indices, consulting and growing
\* included_indices as it goes
RECURSIVE RepairLoop(_, _, _)
RepairLoop(rest, i, included) ==
    IF i > Len(rest) THEN included
    ELSE IF i \in included
         THEN RepairLoop(rest, i + 1, included \cup RepairOf(rest, i))
         ELSE RepairLoop(rest, i + 1, included)

\* a window that is one message short
LastIndices_short(n, lim) == (n - lim + 2)..n

\* line 103
LastIndices(n, lim) == (n - lim + 1)..n

\* a repair that also repairs the messages it added
included_indices_chained(rest, lim) ==
    RepairLoop(rest, 1, RepairLoop(rest, 1, LastIndices(Len(rest), lim)))

\* lines 102-113
included_indices(rest, lim) == RepairLoop(rest, 1, LastIndices(Len(rest), lim))

RECURSIVE Materialize(_, _, _)
Materialize(rest, i, included) ==
    IF i > Len(rest) THEN <<>>
    ELSE (IF i \in included THEN <<rest[i]>> ELSE <<>>)
         \o Materialize(rest, i + 1, included)

\* lines 76-121, for a result that is not None
filtered_message_history(ms, lim, incl) ==
    LET rest == non_system_messages(ms, incl)
        kept == IF lim # None /\ lim[1] > 0 /\ Len(rest) > lim[1]
                THEN Materialize(rest, 1, included_indices(rest, lim[1]))
                ELSE rest
    IN system_message(ms) \o kept

(***************************************************************************)
(* Specification SpecWindow: one call of the windower on a bounded input.  *)
(***************************************************************************)
Limits == {None} \cup {Some(n) : n \in -1..MaxLimit}

IdleChat ==
    /\ result = None /\ filtered_messages = None /\ turns = 0 /\ outcome = "none"
IdleServer ==
    /\ state = "ShuttingDown" /\ line = None /\ readLog = <<>>
    /\ stdoutBuf = <<>> /\ delivered = <<>> /\ fs = <<>>
IdleWindow ==
    /\ messages = <<>> /\ limit = None /\ include_tool_messages = TRUE
    /\ result_messages = None
IdleTools ==
    /\ impl = "none" /\ disk = <<>> /\ call = None /\ ncalls = 0
IdleDriver ==
    /\ message_history = <<>> /\ user_input = <<>> /\ pc = "done"
    /\ tracker = <<>> /\ console = <<>> /\ returned = None
    /\ nodes = <<>> /\ runs = 0

InitWindow ==
    /\ messages \in SeqsUpTo(HistoryMessages, MaxHistory)
    /\ limit \in Limits
    /\ include_tool_messages \in BOOLEAN
    /\ result_messages = None
    /\ IdleChat /\ IdleServer
    /\ IdleTools /\ IdleDriver

CallWindower ==
    /\ result_messages = None
    /\ result_messages' =
         Some(filtered_message_history(messages, limit, include_tool_messages))
    /\ UNCHANGED <<messages, limit, include_tool_messages>>
    /\ UNCHANGED chatVars /\ UNCHANGED serverVars
    /\ UNCHANGED toolVars /\ UNCHANGED driverVars

NextWindow == CallWindower

SpecWindow == InitWindow /\ [][NextWindow]_vars

(***************************************************************************)
(* Specification SpecChat: the chat loop of agent_test_fixed.main.  Each   *)
(* turn windows the stored result, hands it to the model, and stores the   *)
(* new result only when the turn completes.                                *)
(***************************************************************************)
MaxTurns == 4
ChatLimit == 8

\* the messages one successful turn appends after the history it was given:
\* the user prompt (with the system prompt when there is no history), then
\* the model's tool calls, their returns, and the final text
TurnBodies ==
    {<<ModelMessage(<<TextPart>>)>>}
    \cup {<<ModelMessage(<<ToolCallPart(id)>>), ModelMessage(<<ToolReturnPart(id)>>),
            ModelMessage(<<TextPart>>)>> : id \in ToolCallIds}
    \cup {<<ModelMessage(<<TextPart, ToolCallPart("a"), ToolCallPart("b")>>),
            ModelMessage(<<ToolReturnPart("a"), ToolReturnPart("b")>>),
            ModelMessage(<<TextPart>>)>>}

UserRequest(history) ==
    IF history = None
    THEN ModelMessage(<<SystemPromptPart, UserPromptPart>>)
    ELSE ModelMessage(<<UserPromptPart>>)

\* lines 72-73 and 261-265
WindowedResult(res) ==
    IF res = None THEN None
    ELSE Some(filtered_message_history(res[1], Some(ChatLimit), TRUE))

AsList(history) == IF history = None THEN <<>> ELSE history[1]

StartupTimeoutText ==
    "Error: Timed out while starting MCP servers. Please check the logs and try again."
\* the chat loop is running: the servers have started and main has not ended
InSession == outcome \notin {"none", "starting", "exit", StartupTimeoutText}

\* lines 231-235: main enters the 30-second timeout block
InitChat ==
    /\ result = None /\ filtered_messages = None /\ turns = 0
    /\ outcome = "starting"
    /\ IdleWindow /\ IdleServer
    /\ IdleTools /\ IdleDriver

\* lines 236-239: the servers start in time, result = None
ServersStart ==
    /\ outcome = "starting"
    /\ outcome' = "ready"
    /\ result' = None
    /\ UNCHANGED <<filtered_messages, turns>>
    /\ UNCHANGED windowVars /\ UNCHANGED serverVars
    /\ UNCHANGED toolVars /\ UNCHANGED driverVars

\* lines 235 and 298-301: the servers do not start within 30 seconds
StartupTimesOut ==
    /\ outcome = "starting"
    /\ outcome' = StartupTimeoutText
    /\ UNCHANGED <<result, filtered_messages, turns>>
    /\ UNCHANGED windowVars /\ UNCHANGED serverVars
    /\ UNCHANGED toolVars /\ UNCHANGED driverVars

\* lines 256-288: the stream completes, result = result_stream
TurnSucceeds ==
    /\ InSession /\ turns < MaxTurns
    /\ \E body \in TurnBodies :
         LET given == WindowedResult(result)
         IN /\ filtered_messages' = given
            /\ result' = Some(AsList(given) \o <<UserRequest(given)>> \o body)
    /\ turns' = turns + 1
    /\ outcome' = "response"
    /\ UNCHANGED windowVars /\ UNCHANGED serverVars
    /\ UNCHANGED toolVars /\ UNCHANGED driverVars

\* exceptions a turn can end with: the TimeoutError of asyncio.timeout(60)
\* (line 274), or an error of the model request or of a tool dispatch
TurnTimeoutError == [type |-> "TimeoutError", msg |-> ""]
OtherTurnErrors ==
    {[type |-> "ModelHTTPError", msg |-> "status_code: 429"],
     [type |-> "McpError", msg |-> "Connection closed"]}
\* lines 290-296: what the except clauses print for exception exc
Reported(exc) ==
    IF exc.type = "TimeoutError"
    THEN "Error: Response timed out. Please try again."
    ELSE "Error: " \o exc.msg

\* lines 256-296: the turn ends with exception exc.  The exception arrives
\* either while the response streams, before result = result_stream (line
\* 287), or while the two async with blocks are left after it, which is still
\* inside the timeout block and the try.
TurnRaises(exc) ==
    /\ InSession /\ turns < MaxTurns
    /\ \E given \in {WindowedResult(result)} :
        /\ filtered_messages' = given
        /\ \/ UNCHANGED result
           \/ \E body \in TurnBodies :
                 result' = Some(AsList(given) \o <<UserRequest(given)>> \o body)
    /\ turns' = turns + 1
    /\ outcome' = Reported(exc)
    /\ UNCHANGED windowVars /\ UNCHANGED serverVars
    /\ UNCHANGED toolVars /\ UNCHANGED driverVars

\* lines 290-292: asyncio.TimeoutError of the 60-second turn timeout
TurnTimesOut == TurnRaises(TurnTimeoutError)

\* lines 293-296: any other exception of the turn
TurnFails == \E exc \in OtherTurnErrors : TurnRaises(exc)

\* lines 235, 240-296 and 298-301: the chat loop runs inside the timeout
\* block of line 235, so its 30-second deadline passes during the session.
\* The task is cancelled at the next await of a turn; CancelledError is no
\* Exception and passes the except clauses of lines 290-296, the timeout
\* block turns it into TimeoutError, and line 298 catches it: main returns.
StartupDeadlineEndsSession ==
    /\ InSession /\ turns < MaxTurns
    /\ \E given \in {WindowedResult(result)} :
        /\ filtered_messages' = given
        /\ \/ UNCHANGED result
           \/ \E body \in TurnBodies :
                 result' = Some(AsList(given) \o <<UserRequest(given)>> \o body)
    /\ turns' = turns + 1
    /\ outcome' = StartupTimeoutText
    /\ UNCHANGED windowVars /\ UNCHANGED serverVars
    /\ UNCHANGED toolVars /\ UNCHANGED driverVars

\* lines 251-253: the user types exit
UserExits ==
    /\ InSession
    /\ outcome' = "exit"
    /\ UNCHANGED <<result, filtered_messages, turns>>
    /\ UNCHANGED windowVars /\ UNCHANGED serverVars
    /\ UNCHANGED toolVars /\ UNCHANGED driverVars

NextChat ==
    \/ ServersStart \/ StartupTimesOut
    \/ TurnSucceeds \/ TurnTimesOut \/ TurnFails
    \/ StartupDeadlineEndsSession \/ UserExits

SpecChat == InitChat /\ [][NextChat]_vars

(***************************************************************************)
(* The filesystem seen by the handlers of filesystem_mcp_fixed.py.         *)
(* Paths form a small tree under the working directory ".":                *)
(*     a, a/b, a/b/c, x                                                    *)
(* An entry is absent, a directory, or a regular file with a text content  *)
(* (a sequence of characters); mtime is a logical modification time.       *)
(***************************************************************************)
Paths == {".", "a", "a/b", "a/b/c", "x"}

Parent(p) == CASE p = "a/b/c" -> "a/b" [] p = "a/b" -> "a" [] OTHER -> "."
Name(p) == CASE p = "a/b/c" -> "c" [] p = "a/b" -> "b" [] p = "." -> "" [] OTHER -> p
Absolute(p) == IF p = "." THEN "/cwd" ELSE "/cwd/" \o p

RECURSIVE Ancestors(_)
\* the proper ancestors of p below the working directory
Ancestors(p) ==
    IF Parent(p) = "." THEN {} ELSE {Parent(p)} \cup Ancestors(Parent(p))

Absent == [kind |-> "absent", content |-> <<>>, mtime |-> 0]
Dir(t) == [kind |-> "dir", content |-> <<>>, mtime |-> t]
File(c, t) == [kind |-> "file", content |-> c, mtime |-> t]

Contents == {<<"h", "i">>, <<"CR", "LF", "e9">>}

EmptyFs == [p \in Paths |-> IF p = "." THEN Dir(1) ELSE Absent]
SomeFs ==
    [p \in Paths |->
        CASE p = "." -> Dir(1) [] p = "a" -> Dir(1)
          [] p = "a/b" -> File(<<"h", "i">>, 1)
          [] p = "x" -> File(<<>>, 1)
          [] OTHER -> Absent]
InitialFilesystems == {EmptyFs, SomeFs}

\* every existing entry lies in a directory
WellFormed(f) ==
    \A p \in Paths \ {"."} : f[p].kind # "absent" => f[Parent(p)].kind = "dir"

exists(f, p) == f[p].kind # "absent"
is_file(f, p) == f[p].kind = "file"
is_dir(f, p) == f[p].kind = "dir"

\* bytes of one character in the default (UTF-8) encoding
CharBytes(ch) == IF ch = "e9" THEN 2 ELSE 1
RECURSIVE ByteLen(_)
ByteLen(c) == IF c = <<>> THEN 0 ELSE CharBytes(Head(c)) + ByteLen(Tail(c))

st_size(f, p) == IF is_dir(f, p) THEN 4096 ELSE ByteLen(f[p].content)

RECURSIVE UniversalNewlines(_)
\* text-mode read: "\r\n" and a lone "\r" are read as "\n"
UniversalNewlines(c) ==
    IF c = <<>> THEN <<>>
    ELSE IF Head(c) = "CR"
         THEN IF Len(c) >= 2 /\ c[2] = "LF"
              THEN <<"LF">> \o UniversalNewlines(Tail(Tail(c)))
              ELSE <<"LF">> \o UniversalNewlines(Tail(c))
         ELSE <<Head(c)>> \o UniversalNewlines(Tail(c))

read_text(f, p) == UniversalNewlines(f[p].content)

(***************************************************************************)
(* Values decoded from JSON, tagged with their Python type.  A dict holds  *)
(* its items as a function from keys to values.                            *)
(***************************************************************************)
PyNone == [t |-> "NoneType"]
PyString(s) == [t |-> "str", s |-> s]
PyInt(n) == [t |-> "int", n |-> n]
PyList == [t |-> "list"]
PyDict(items) == [t |-> "dict", items |-> items]
NoItems == [k \in {} |-> PyNone]

\* dict.get(key, default)
Get(d, key, default) == IF key \in DOMAIN d.items THEN d.items[key] ELSE default

\* str(v) as an f-string formats it
PyStr(v) ==
    CASE v.t = "NoneType" -> "None"
      [] v.t = "str" -> v.s
      [] v.t = "int" -> "123"
      [] v.t = "list" -> "[]"
      [] OTHER -> "{...}"

\* an ordinary result of a Python call, or the exception it raised
Ok(v) == [raised |-> FALSE, value |-> v]
Raise(type, msg) == [raised |-> TRUE, type |-> type, msg |-> msg]

(***************************************************************************)
(* Tool implementations (lines 43-141).  Each returns its payload and the  *)
(* filesystem it leaves.                                                   *)
(***************************************************************************)
PathTypeError(v) ==
    "expected str, bytes or os.PathLike object, not " \o v.t

\* lines 43-66; the order of iterdir() is not modelled: names are sets
list_files(f, directory) ==
    IF directory.t # "str"
    THEN [ret |-> [error |-> PathTypeError(directory)], fs |-> f]
    ELSE LET p == directory.s IN
         IF ~exists(f, p)
         THEN [ret |-> [error |-> "Directory '" \o p \o "' not found"], fs |-> f]
         ELSE IF ~is_dir(f, p)
         THEN [ret |-> [error |-> "[Errno 20] Not a directory: '" \o p \o "'"],
               fs |-> f]
         ELSE LET items == {q \in Paths \ {"."} : Parent(q) = p /\ exists(f, q)}
              IN [ret |-> [files |-> {Name(q) : q \in {r \in items : is_file(f, r)}},
                           directories |->
                               {Name(q) : q \in {r \in items : is_dir(f, r)}},
                           path |-> Absolute(p)],
                  fs |-> f]

\* lines 68-92
read_file(f, file_path) ==
    IF file_path.t # "str"
    THEN [ret |-> [error |-> PathTypeError(file_path)], fs |-> f]
    ELSE LET p == file_path.s IN
         IF ~exists(f, p)
         THEN [ret |-> [error |-> "File '" \o p \o "' not found"], fs |-> f]
         ELSE IF ~is_file(f, p)
         THEN [ret |-> [error |-> "'" \o p \o "' is not a file"], fs |-> f]
         ELSE [ret |-> [content |-> read_text(f, p),
                        size |-> st_size(f, p),
                        path |-> Absolute(p)],
               fs |-> f]

\* line 103: path.parent.mkdir(parents=True) for a parent that does not exist
mkdir_parents(f, p, now) ==
    IF \E q \in Ancestors(p) : is_file(f, q)
    THEN Raise("NotADirectoryError", "[Errno 20] Not a directory: '" \o Parent(p) \o "'")
    ELSE LET created == {q \in Ancestors(p) : ~exists(f, q)}
             touched == {Parent(q) : q \in created}
         IN Ok([q \in Paths |->
                  IF q \in created \cup touched THEN Dir(now) ELSE f[q]])

\* a write that opens the file for appending
write_text_append(f, p, content, now) ==
    IF content.t # "str"
    THEN Raise("TypeError", "data must be str, not " \o content.t)
    ELSE IF is_dir(f, p)
    THEN Raise("IsADirectoryError", "[Errno 21] Is a directory: '" \o p \o "'")
    ELSE IF ~is_dir(f, Parent(p))
    THEN Raise("NotADirectoryError", "[Errno 20] Not a directory: '" \o p \o "'")
    ELSE Ok([q \in Paths |->
               IF q = p THEN File(f[p].content \o content.s, now)
               ELSE IF q = Parent(p) /\ ~exists(f, p) THEN Dir(now)
               ELSE f[q]])

\* line 105: path.write_text(content)
write_text(f, p, content, now) ==
    IF content.t # "str"
    THEN Raise("TypeError", "data must be str, not " \o content.t)
    ELSE IF is_dir(f, p)
    THEN Raise("IsADirectoryError", "[Errno 21] Is a directory: '" \o p \o "'")
    ELSE IF ~is_dir(f, Parent(p))
    THEN Raise("NotADirectoryError", "[Errno 20] Not a directory: '" \o p \o "'")
    ELSE Ok([q \in Paths |->
               IF q = p THEN File(content.s, now)
               ELSE IF q = Parent(p) /\ ~exists(f, p) THEN Dir(now)
               ELSE f[q]])

\* lines 94-116
write_file(f, file_path, content, now) ==
    IF file_path.t # "str"
    THEN [ret |-> [error |-> PathTypeError(file_path)], fs |-> f]
    ELSE LET p == file_path.s
             made == IF ~exists(f, Parent(p)) THEN mkdir_parents(f, p, now) ELSE Ok(f)
         IN IF made.raised
            THEN [ret |-> [error |-> made.msg], fs |-> f]
            ELSE LET written == write_text(made.value, p, content, now)
                 IN IF written.raised
                    THEN [ret |-> [error |-> written.msg], fs |-> made.value]
                    ELSE [ret |-> [success |-> TRUE,
                                   message |-> "Successfully wrote "
                                       \o ToString(Len(content.s))
                                       \o " bytes to " \o p,
                                   path |-> Absolute(p)],
                          fs |-> written.value]

\* lines 118-141
get_file_info(f, file_path) ==
    IF file_path.t # "str"
    THEN [ret |-> [error |-> PathTypeError(file_path)], fs |-> f]
    ELSE LET p == file_path.s IN
         IF ~exists(f, p)
         THEN [ret |-> [error |-> "File '" \o p \o "' not found"], fs |-> f]
         ELSE [ret |-> [name |-> Name(p),
                        size |-> st_size(f, p),
                        modified |-> f[p].mtime,
                        is_file |-> is_file(f, p),
                        is_dir |-> is_dir(f, p),
                        path |-> Absolute(p)],
               fs |-> f]

\* a descriptor that lists no required field for read_file
get_tool_specs_optional ==
    << [name |-> "list_files",
        input_schema |-> [type |-> "object", properties |-> {"directory"}]],
       [name |-> "read_file",
        input_schema |-> [type |-> "object", properties |-> {"file_path"}]],
       [name |-> "write_file",
        input_schema |-> [type |-> "object", properties |-> {"file_path", "content"},
                          required |-> <<"file_path", "content">>]],
       [name |-> "get_file_info",
        input_schema |-> [type |-> "object", properties |-> {"file_path"},
                          required |-> <<"file_path">>]] >>

\* lines 144-192
get_tool_specs ==
    << [name |-> "list_files",
        input_schema |-> [type |-> "object", properties |-> {"directory"}]],
       [name |-> "read_file",
        input_schema |-> [type |-> "object", properties |-> {"file_path"},
                          required |-> <<"file_path">>]],
       [name |-> "write_file",
        input_schema |-> [type |-> "object", properties |-> {"file_path", "content"},
                          required |-> <<"file_path", "content">>]],
       [name |-> "get_file_info",
        input_schema |-> [type |-> "object", properties |-> {"file_path"},
                          required |-> <<"file_path">>]] >>

(***************************************************************************)
(* Request handling (lines 195-240)                                        *)
(***************************************************************************)
RegisteredFunctions == {"list_files", "read_file", "write_file", "get_file_info"}

\* keyword parameters of each handler's signature
Accepted(fn) ==
    CASE fn = "list_files" -> {"directory"}
      [] fn = "write_file" -> {"file_path", "content"}
      [] OTHER -> {"file_path"}
RequiredArgs(fn) ==
    CASE fn = "list_files" -> {}
      [] fn = "write_file" -> {"file_path", "content"}
      [] OTHER -> {"file_path"}

\* the handler body, once Python has bound the keyword arguments
Invoke(fn, f, args, now) ==
    CASE fn = "list_files" -> list_files(f, Get(args, "directory", PyString(".")))
      [] fn = "read_file" -> read_file(f, args.items["file_path"])
      [] fn = "write_file" ->
            write_file(f, args.items["file_path"], args.items["content"], now)
      [] OTHER -> get_file_info(f, args.items["file_path"])

\* handlers whose parameters all default to None: the body always runs
CallWithParams_defaults(fn, f, params, now) ==
    IF params.t # "dict"
    THEN Raise("TypeError", fn \o "() argument after ** must be a mapping, not "
                            \o params.t)
    ELSE IF DOMAIN params.items \ Accepted(fn) # {}
    THEN Raise("TypeError", fn \o "() got an unexpected keyword argument")
    ELSE Ok(Invoke(fn, f,
                   PyDict([k \in Accepted(fn) \ {"directory"} |->
                              Get(params, k, PyNone)]),
                   now))

\* lines 220-229: handler(**params); Python raises TypeError before the body
\* runs when params is no mapping or does not fit the signature
CallWithParams(fn, f, params, now) ==
    IF params.t # "dict"
    THEN Raise("TypeError", fn \o "() argument after ** must be a mapping, not "
                            \o params.t)
    ELSE IF DOMAIN params.items \ Accepted(fn) # {}
    THEN Raise("TypeError", fn \o "() got an unexpected keyword argument")
    ELSE IF RequiredArgs(fn) \ DOMAIN params.items # {}
    THEN Raise("TypeError", fn \o "() missing required positional argument")
    ELSE Ok(Invoke(fn, f, params, now))

InitializeResponse ==
    [schema_version |-> "v1",
     capabilities |-> <<"function_calling">>,
     tool_specs |-> get_tool_specs]

\* a dispatcher that reports every failure inside a result payload
execute_function_wrapped(request, f, now) ==
    LET function_name == Get(request, "function_name", PyNone)
        params == Get(request, "parameters", PyDict(NoItems))
    IN IF function_name.t = "str" /\ function_name.s \in RegisteredFunctions
       THEN LET called == CallWithParams(function_name.s, f, params, now)
            IN IF called.raised
               THEN [response |-> [result |-> [error |-> called.msg]], fs |-> f]
               ELSE [response |-> [result |-> called.value.ret],
                     fs |-> called.value.fs]
       ELSE [response |->
                [result |-> [error |-> "Unknown function: " \o PyStr(function_name)]],
             fs |-> f]

\* a dispatcher whose failures carry an empty result next to the error
execute_function_both(request, f, now) ==
    LET function_name == Get(request, "function_name", PyNone)
        params == Get(request, "parameters", PyDict(NoItems))
    IN IF function_name.t = "str" /\ function_name.s \in RegisteredFunctions
       THEN LET called == CallWithParams(function_name.s, f, params, now)
            IN IF called.raised
               THEN [response |-> [result |-> "", error |-> called.msg], fs |-> f]
               ELSE [response |-> [result |-> called.value.ret],
                     fs |-> called.value.fs]
       ELSE [response |-> [result |-> "",
                           error |-> "Unknown function: " \o PyStr(function_name)],
             fs |-> f]

\* a dispatcher that lifts a payload's error into the envelope
execute_function_lifted(request, f, now) ==
    LET function_name == Get(request, "function_name", PyNone)
        params == Get(request, "parameters", PyDict(NoItems))
    IN IF function_name.t = "str" /\ function_name.s \in RegisteredFunctions
       THEN LET called == CallWithParams(function_name.s, f, params, now)
            IN IF called.raised
               THEN [response |-> [error |-> called.msg], fs |-> f]
               ELSE IF "error" \in DOMAIN called.value.ret
               THEN [response |-> [error |-> called.value.ret.error],
                     fs |-> called.value.fs]
               ELSE [response |-> [result |-> called.value.ret],
                     fs |-> called.value.fs]
       ELSE [response |-> [error |-> "Unknown function: " \o PyStr(function_name)],
             fs |-> f]

\* lines 211-237
execute_function(request, f, now) ==
    LET function_name == Get(request, "function_name", PyNone)
        params == Get(request, "parameters", PyDict(NoItems))
    IN IF function_name.t = "str" /\ function_name.s \in RegisteredFunctions
       THEN LET called == CallWithParams(function_name.s, f, params, now)
            IN IF called.raised
               THEN [response |-> [error |-> called.msg], fs |-> f]
               ELSE [response |-> [result |-> called.value.ret],
                     fs |-> called.value.fs]
       ELSE [response |-> [error |-> "Unknown function: " \o PyStr(function_name)],
             fs |-> f]

\* lines 195-240; request.get raises AttributeError on a value that is no dict
handle_request(request, f, now) ==
    IF request.t # "dict"
    THEN Raise("AttributeError", "'" \o request.t \o "' object has no attribute 'get'")
    ELSE LET method == Get(request, "method", PyNone)
         IN IF method = PyString("initialize")
            THEN Ok([response |-> InitializeResponse, fs |-> f])
            ELSE IF method = PyString("execute_function")
            THEN Ok(execute_function(request, f, now))
            ELSE Ok([response |-> [error |-> "Unknown method: " \o PyStr(method)],
                     fs |-> f])

(***************************************************************************)
(* Lines on the wire.  A line is either a JSON document or raw text that   *)
(* is no JSON document.                                                    *)
(***************************************************************************)
Json(v) == [doc |-> v]
Raw(text) == [raw |-> text]

BlankLine == Raw("\n")
BadJsonLine == Raw("{bad json")

\* json.loads(line), line 265
json_loads(l) ==
    IF "doc" \in DOMAIN l THEN Ok(l.doc)
    ELSE IF l = BlankLine
    THEN Raise("JSONDecodeError", "Expecting value: line 2 column 1 (char 1)")
    ELSE Raise("JSONDecodeError",
               "Expecting property name enclosed in double quotes: line 1 column 2 (char 1)")

\* json.dumps(response), lines 271, 281, 289
json_dumps(v) == Json(v)

Request(items) == Json(PyDict(items))
Execute(fn, params) ==
    Request([method |-> PyString("execute_function"), function_name |-> fn,
             parameters |-> params])

OtherLines ==
    {BlankLine, BadJsonLine,
     Json(PyList), Json(PyNone), Json(PyString("initialize")),
     Request(NoItems),
     Request([method |-> PyString("shutdown")]),
     Request([method |-> PyNone]),
     Request([function_name |-> PyString("read_file"),
              parameters |-> PyDict([file_path |-> PyString("x")])])}

InitializeLines ==
    {Request([method |-> PyString("initialize")]),
     Request([method |-> PyString("initialize"), function_name |-> PyString("write_file")])}

UnknownFunctionLines ==
    {Request([method |-> PyString("execute_function")]),
     Execute(PyNone, PyNone),
     Execute(PyString("delete_file"), PyDict([file_path |-> PyString("x")])),
     Execute(PyString("delete_file"), PyList),
     Execute(PyList, PyDict(NoItems))}

ListFilesLines ==
    {Request([method |-> PyString("execute_function"),
              function_name |-> PyString("list_files")])}
    \cup {Execute(PyString("list_files"), params) :
            params \in {PyNone,
                        PyDict([directory |-> PyString("a")]),
                        PyDict([directory |-> PyString("x")]),
                        PyDict([directory |-> PyNone]),
                        PyDict([file_path |-> PyString("a")])}}

ReadFileLines ==
    {Execute(PyString("read_file"), params) :
        params \in {PyDict(NoItems), PyList,
                    PyDict([file_path |-> PyString("x")]),
                    PyDict([file_path |-> PyString("a")]),
                    PyDict([file_path |-> PyString("a/b/c")]),
                    PyDict([file_path |-> PyInt(123)]),
                    PyDict([directory |-> PyString("a")])}}

WriteFileLines ==
    {Request([method |-> PyString("execute_function"),
              function_name |-> PyString("write_file")])}
    \cup {Execute(PyString("write_file"), params) :
            params \in {PyDict([file_path |-> PyString("a/b/c")]),
                        PyDict([content |-> PyString(<<"h", "i">>)]),
                        PyDict([file_path |-> PyString("a/b/c"),
                                content |-> PyInt(123)]),
                        PyDict([file_path |-> PyNone,
                                content |-> PyString(<<"h", "i">>)]),
                        PyDict([file_path |-> PyString("a"),
                                content |-> PyString(<<"h", "i">>)])}}
    \cup {Execute(PyString("write_file"),
                  PyDict([file_path |-> PyString(p), content |-> PyString(c)])) :
            p \in {"a/b/c", "x"}, c \in Contents}

GetFileInfoLines ==
    {Execute(PyString("get_file_info"), params) :
        params \in {PyDict(NoItems),
                    PyDict([file_path |-> PyString("x")]),
                    PyDict([file_path |-> PyString("a")]),
                    PyDict([file_path |-> PyString("a/b/c")]),
                    PyDict([file_path |-> PyString("x"),
                            content |-> PyString(<<"h", "i">>)])}}

Lines ==
    OtherLines \cup InitializeLines \cup UnknownFunctionLines \cup ListFilesLines
    \cup ReadFileLines \cup WriteFileLines \cup GetFileInfoLines

(***************************************************************************)
(* Specification SpecServer: the main loop of the server (lines 242-299).  *)
(* line = None while the loop waits in readline(); line = Some(l) between  *)
(* readline() returning l and the flush of its response.                   *)
(***************************************************************************)
MaxLines == 2

\* the time of the filesystem clock while a line is handled: one tick per line
Now == Len(readLog) + 1

\* print(...), lines 273, 282, 290
print(buf, text) == Append(buf, text)

\* a flush that is left out: the response stays in the buffer
flush_omitted(buf) == <<>>

\* what sys.stdout.flush() hands to the client, lines 274, 283, 291
flush(buf) == buf

InitServer ==
    /\ state = "AwaitingLine" /\ line = None /\ readLog = <<>>
    /\ stdoutBuf = <<>> /\ delivered = <<>>
    /\ fs \in InitialFilesystems
    /\ IdleWindow /\ IdleChat
    /\ IdleTools /\ IdleDriver

\* line 254: readline() returns the next line of the stream
ReadLine ==
    /\ state = "AwaitingLine" /\ line = None
    /\ Len(readLog) < MaxLines
    /\ \E l \in Lines :
         /\ line' = Some(l)
         /\ readLog' = Append(readLog, l)
    /\ UNCHANGED <<state, stdoutBuf, delivered, fs>>
    /\ UNCHANGED windowVars /\ UNCHANGED chatVars
    /\ UNCHANGED toolVars /\ UNCHANGED driverVars

\* lines 254-259: readline() returns "" at the end of the stream
EndOfStream ==
    /\ state = "AwaitingLine" /\ line = None
    /\ state' = "ShuttingDown"
    /\ UNCHANGED <<line, readLog, stdoutBuf, delivered, fs>>
    /\ UNCHANGED windowVars /\ UNCHANGED chatVars
    /\ UNCHANGED toolVars /\ UNCHANGED driverVars

\* an except clause that reports every exception as a server error
ErrorResponse_generic(exc) == [error |-> "Server error: " \o exc.msg]

\* the except clause that answers an exception of the try block, lines 277-291
ErrorResponse(exc) ==
    IF exc.type = "JSONDecodeError"
    THEN [error |-> "Invalid JSON: " \o exc.msg]
    ELSE [error |-> "Server error: " \o exc.msg]

\* lines 263-291: the response to a line and the filesystem it leaves
Serve(l, f, now) ==
    LET parsed == json_loads(l)
    IN IF parsed.raised
       THEN [response |-> ErrorResponse(parsed), fs |-> f]
       ELSE LET handled == handle_request(parsed.value, f, now)
            IN IF handled.raised
               THEN [response |-> ErrorResponse(handled), fs |-> f]
               ELSE handled.value

\* a loop that gives up after an unexpected exception
HandleLine_gives_up ==
    /\ state = "AwaitingLine" /\ line # None
    /\ \E served \in {Serve(line[1], fs, Now)} :
         \E printed \in {print(stdoutBuf, json_dumps(served.response))} :
            /\ delivered' = delivered \o flush(printed)
            /\ stdoutBuf' = SubSeq(printed, Len(flush(printed)) + 1, Len(printed))
            /\ fs' = served.fs
            /\ state' = IF "error" \in DOMAIN served.response
                           /\ served.response.error
                                = "Server error: 'list' object has no attribute 'get'"
                        THEN "ShuttingDown" ELSE state
    /\ line' = None
    /\ UNCHANGED readLog
    /\ UNCHANGED windowVars /\ UNCHANGED chatVars
    /\ UNCHANGED toolVars /\ UNCHANGED driverVars

\* lines 263-291: parse, handle, print and flush, back to readline()
HandleLine ==
    /\ state = "AwaitingLine" /\ line # None
    /\ \E served \in {Serve(line[1], fs, Now)} :
         \E printed \in {print(stdoutBuf, json_dumps(served.response))} :
            /\ delivered' = delivered \o flush(printed)
            /\ stdoutBuf' = SubSeq(printed, Len(flush(printed)) + 1, Len(printed))
            /\ fs' = served.fs
    /\ line' = None
    /\ UNCHANGED <<state, readLog>>
    /\ UNCHANGED windowVars /\ UNCHANGED chatVars
    /\ UNCHANGED toolVars /\ UNCHANGED driverVars

NextServer == ReadLine \/ EndOfStream \/ HandleLine

SpecServer == InitServer /\ [][NextServer]_vars

\* a line that was read is handled to the end, and a stream of finitely many
\* lines delivers its end: readline() returns "" once no line is left
FairSpecServer == SpecServer /\ WF_vars(HandleLine) /\ WF_vars(EndOfStream)

(***************************************************************************)
(* The handlers of mcp_servers/filesystem_mcp.py (the FastMCP server).     *)
(* Each takes a validated request model and returns a response model;      *)
(* Ok(..) holds the response and the filesystem left, Raise(..) is an      *)
(* exception that leaves the handler.  Optional fields are None or Some.   *)
(***************************************************************************)
ListFilesResponse(files, directories, path, error) ==
    [files |-> files, directories |-> directories, path |-> path, error |-> error]
ReadFileResponse(content, size, path, error) ==
    [content |-> content, size |-> size, path |-> path, error |-> error]
WriteFileResponse(success, message, path, error) ==
    [success |-> success, message |-> message, path |-> path, error |-> error]
GetFileInfoResponse(name, size, modified, isfile, isdir, path, error) ==
    [name |-> name, size |-> size, modified |-> modified, is_file |-> isfile,
     is_dir |-> isdir, path |-> path, error |-> error]

\* lines 93-129.  Path(request.directory) raises TypeError for None (line 100);
\* the except branch evaluates Path(request.directory) again (line 127), and
\* that TypeError leaves the handler.
mcp_list_files(f, directory) ==
    IF directory.t # "str"
    THEN Raise("TypeError", PathTypeError(directory))
    ELSE LET p == directory.s IN
         IF ~exists(f, p)
         THEN Ok([ret |-> ListFilesResponse({}, {}, p,
                              Some("Directory '" \o p \o "' not found")),
                  fs |-> f])
         ELSE IF ~is_dir(f, p)
         THEN Ok([ret |-> ListFilesResponse({}, {}, p,
                              Some("[Errno 20] Not a directory: '" \o p \o "'")),
                  fs |-> f])
         ELSE LET items == {q \in Paths \ {"."} : Parent(q) = p /\ exists(f, q)}
              IN Ok([ret |-> ListFilesResponse(
                                {Name(q) : q \in {r \in items : is_file(f, r)}},
                                {Name(q) : q \in {r \in items : is_dir(f, r)}},
                                Absolute(p), None),
                     fs |-> f])

\* lines 131-164
mcp_read_file(f, file_path) ==
    LET p == file_path.s IN
    IF ~exists(f, p)
    THEN Ok([ret |-> ReadFileResponse(None, None, None,
                         Some("File '" \o p \o "' not found")),
             fs |-> f])
    ELSE IF ~is_file(f, p)
    THEN Ok([ret |-> ReadFileResponse(None, None, None,
                         Some("'" \o p \o "' is not a file")),
             fs |-> f])
    ELSE Ok([ret |-> ReadFileResponse(Some(read_text(f, p)), Some(st_size(f, p)),
                                      Some(Absolute(p)), None),
             fs |-> f])

\* lines 166-195
mcp_write_file(f, file_path, content, now) ==
    LET p == file_path.s
        failed(msg) == WriteFileResponse(FALSE, "Failed to write to " \o p, None,
                                         Some(msg))
        made == IF ~exists(f, Parent(p)) THEN mkdir_parents(f, p, now) ELSE Ok(f)
    IN IF made.raised
       THEN Ok([ret |-> failed(made.msg), fs |-> f])
       ELSE LET written == write_text(made.value, p, content, now)
            IN IF written.raised
               THEN Ok([ret |-> failed(written.msg), fs |-> made.value])
               ELSE Ok([ret |-> WriteFileResponse(TRUE,
                                    "Successfully wrote "
                                        \o ToString(Len(content.s))
                                        \o " bytes to " \o p,
                                    Some(Absolute(p)), None),
                        fs |-> written.value])

\* lines 197-227
mcp_get_file_info(f, file_path) ==
    LET p == file_path.s IN
    IF ~exists(f, p)
    THEN Ok([ret |-> GetFileInfoResponse(None, None, None, None, None, None,
                         Some("File or directory '" \o p \o "' not found")),
             fs |-> f])
    ELSE Ok([ret |-> GetFileInfoResponse(Some(Name(p)), Some(st_size(f, p)),
                         Some(f[p].mtime), Some(is_file(f, p)),
                         Some(is_dir(f, p)), Some(Absolute(p)), None),
             fs |-> f])

(***************************************************************************)
(* Specification SpecTools: the four handlers of one of the two servers,   *)
(* called one after another on a filesystem, with the parameter values the *)
(* request models accept.                                                  *)
(***************************************************************************)
MaxCalls == 3
Implementations == {"filesystem_mcp", "filesystem_mcp_fixed"}
Entries == {Absent, Dir(1)} \cup {File(c, 1) : c \in Contents \cup {<<>>}}
Filesystems == {f \in [Paths -> Entries] : f["."] = Dir(1) /\ WellFormed(f)}

\* ListFilesRequest.directory is Optional[str]; the other fields are str
DirectoryValues == {PyString(p) : p \in Paths} \cup {PyNone}
PathValues == {PyString(p) : p \in Paths}
ContentValues == {PyString(c) : c \in Contents}

InitTools ==
    /\ impl \in Implementations
    /\ disk \in Filesystems
    /\ call = None /\ ncalls = 0
    /\ IdleWindow /\ IdleChat /\ IdleServer /\ IdleDriver

\* the call is recorded with what it returned or raised
Called(tool, args, out) ==
    /\ call' = Some([tool |-> tool, args |-> args, raised |-> out.raised,
                     ret |-> IF out.raised THEN [exception |-> out.type]
                             ELSE out.value.ret])
    /\ disk' = IF out.raised THEN disk ELSE out.value.fs
    /\ ncalls' = ncalls + 1
    /\ UNCHANGED impl
    /\ UNCHANGED windowVars /\ UNCHANGED chatVars
    /\ UNCHANGED serverVars /\ UNCHANGED driverVars

CallListFiles ==
    /\ ncalls < MaxCalls
    /\ \E d \in DirectoryValues :
        \E out \in {IF impl = "filesystem_mcp" THEN mcp_list_files(disk, d)
                    ELSE Ok(list_files(disk, d))} :
            Called("list_files", [directory |-> d], out)

CallReadFile ==
    /\ ncalls < MaxCalls
    /\ \E p \in PathValues :
        \E out \in {IF impl = "filesystem_mcp" THEN mcp_read_file(disk, p)
                    ELSE Ok(read_file(disk, p))} :
            Called("read_file", [file_path |-> p], out)

CallWriteFile ==
    /\ ncalls < MaxCalls
    /\ \E p \in PathValues : \E c \in ContentValues :
        \E out \in {IF impl = "filesystem_mcp"
                    THEN mcp_write_file(disk, p, c, ncalls + 2)
                    ELSE Ok(write_file(disk, p, c, ncalls + 2))} :
            Called("write_file", [file_path |-> p, content |-> c], out)

CallGetFileInfo ==
    /\ ncalls < MaxCalls
    /\ \E p \in PathValues :
        \E out \in {IF impl = "filesystem_mcp" THEN mcp_get_file_info(disk, p)
                    ELSE Ok(get_file_info(disk, p))} :
            Called("get_file_info", [file_path |-> p], out)

NextTools == CallListFiles \/ CallReadFile \/ CallWriteFile \/ CallGetFileInfo

SpecTools == InitTools /\ [][NextTools]_vars

(***************************************************************************)
(* The iter-based driver of agent_test_iter.py: ToolStateTracker (lines    *)
(* 128-156), run_with_iter (158-238) and the loop of main (261-272).       *)
(* Strings are sequences of characters.                                    *)
(***************************************************************************)
MaxRuns == 2            \* turns of one session
MaxNodes == 2           \* nodes one agent run yields before its End node
MaxParts == 1           \* parts of one model response
HistoryCap == 10        \* line 229

Whitespace == {" ", "LF"}
RECURSIVE lstrip(_)
lstrip(c) == IF c # <<>> /\ Head(c) \in Whitespace THEN lstrip(Tail(c)) ELSE c
RECURSIVE rstrip(_)
rstrip(c) ==
    IF c # <<>> /\ c[Len(c)] \in Whitespace
    THEN rstrip(SubSeq(c, 1, Len(c) - 1)) ELSE c
\* str.strip()
strip(c) == rstrip(lstrip(c))

\* parts of a model response; args is the JSON text the model produced
ResponseTextPart(content) == [part_kind |-> "text", content |-> content]
ResponseToolCallPart(id, args) ==
    [part_kind |-> "tool-call", tool_call_id |-> id, tool_name |-> "read_file",
     args |-> args]
TextContents == {<<" ", "H", "i">>, <<" ", "LF">>}
WellFormedArgs == "{\"file_path\": \"x\"}"
TruncatedArgs == "{\"file_path\": "
ResponseParts ==
    {ResponseTextPart(c) : c \in TextContents}
    \cup {ResponseToolCallPart("a", args) : args \in {WellFormedArgs, TruncatedArgs}}

\* part.args_as_dict(): the arguments parsed, or the error of the JSON parser
args_as_dict(part) ==
    IF part.args = WellFormedArgs
    THEN Ok([file_path |-> "x"])
    ELSE Raise("ValueError", "EOF while parsing a string")

\* d[key] = value on a dict that keeps insertion order
DictSet(d, key, value) ==
    IF \E i \in 1..Len(d) : d[i].key = key
    THEN [i \in 1..Len(d) |->
            IF d[i].key = key THEN [key |-> key, value |-> value] ELSE d[i]]
    ELSE Append(d, [key |-> key, value |-> value])

\* lines 131-135
ToolStateTracker ==
    [tool_calls |-> <<>>, tool_results |-> <<>>, text_output |-> <<>>,
     final_output |-> <<>>]
\* lines 138-143; the caller has checked that the arguments parse
add_tool_call(t, part, args) ==
    [t EXCEPT !.tool_calls =
        DictSet(@, part.tool_call_id, [tool_name |-> part.tool_name, args |-> args])]
\* an accumulator that keeps only the latest text
add_text_latest(t, text) ==
    [t EXCEPT !.text_output = Append(@, text), !.final_output = text]
\* lines 149-152
add_text(t, text) ==
    [t EXCEPT !.text_output = Append(@, text), !.final_output = @ \o text]
\* lines 154-156
get_complete_output(t) == t.final_output

\* lines 195-211: the parts of one model response, in order; processing
\* stops at the first part that raises
RECURSIVE ProcessParts(_, _)
ProcessParts(parts, st) ==
    IF parts = <<>> \/ st.error # None THEN st
    ELSE LET part == Head(parts) IN
         IF part.part_kind = "text"
         THEN IF strip(part.content) # <<>>
              THEN ProcessParts(Tail(parts),
                       [st EXCEPT !.console = Append(@, part.content),
                                  !.tracker = add_text(@, part.content)])
              ELSE ProcessParts(Tail(parts), st)
         ELSE LET args == args_as_dict(part) IN
              IF args.raised
              THEN [st EXCEPT !.error = Some(args.msg)]
              ELSE ProcessParts(Tail(parts),
                       [st EXCEPT !.tracker = add_tool_call(@, part, args.value),
                                  !.console =
                                      Append(@, <<"[Tool Call: ", part.tool_name,
                                                  "]">>)])

HistoryEntry(role, content) == [role |-> role, content |-> content]
\* a history of n entries, as earlier turns leave it
RECURSIVE EarlierHistory(_)
EarlierHistory(n) ==
    IF n = 0 THEN <<>>
    ELSE Append(EarlierHistory(n - 1),
                IF n % 2 = 1 THEN HistoryEntry("user", <<"q">>)
                ELSE HistoryEntry("assistant", <<"o", "k">>))
MaxEarlier == 11
UserInputs == {<<"l", "s">>}
NodeErrors == {"Connection closed"}

\* the two chat loops start from an empty history (agent_test_iter.py line
\* 263, agent_test.py line 111); run_with_iter takes any list: the empty one
\* and those whose length is around the cap.  pc tells the loops apart:
\* "prompt" is the prompt of agent_test_iter.main, "delta_prompt" that of
\* agent_test.main
InitDriver ==
    /\ message_history \in
           {EarlierHistory(n) : n \in {0} \cup ((MaxEarlier - 3)..MaxEarlier)}
    /\ user_input = <<>> /\ pc \in {"prompt", "delta_prompt"}
    /\ tracker = ToolStateTracker /\ console = <<>> /\ returned = None
    /\ nodes = <<>> /\ runs = 0
    /\ IdleWindow /\ IdleChat /\ IdleServer /\ IdleTools

Elsewhere ==
    /\ UNCHANGED windowVars /\ UNCHANGED chatVars
    /\ UNCHANGED serverVars /\ UNCHANGED toolVars

\* lines 266-272 and 175-186: a prompt is read and run_with_iter starts
StartTurn ==
    /\ pc = "prompt" /\ runs < MaxRuns
    /\ \E text \in UserInputs : user_input' = text
    /\ tracker' = ToolStateTracker
    /\ console' = <<<<"Agent: ">>>>
    /\ returned' = None /\ nodes' = <<>> /\ runs' = runs + 1
    /\ pc' = "iterating"
    /\ UNCHANGED message_history /\ Elsewhere

\* an except branch that keeps the user's entry of the failed turn
Fails_keeps_input(out, msg) ==
    /\ console' = Append(out, <<"Error: ", msg>>) \o <<<<"LF", "LF">>>>
    /\ \E history \in {Append(message_history, HistoryEntry("user", user_input))} :
          /\ returned' = Some(<<<<"Error: ", msg>>, history>>)
          /\ message_history' = history
    /\ tracker' = ToolStateTracker /\ nodes' = <<>>
    /\ pc' = "prompt"
    /\ UNCHANGED <<user_input, runs>> /\ Elsewhere

\* lines 234-238 and 272: the except branch returns, main stores the pair;
\* the tracker is local to run_with_iter and ends with it
Fails(out, msg) ==
    /\ console' = Append(out, <<"Error: ", msg>>) \o <<<<"LF", "LF">>>>
    /\ returned' = Some(<<<<"Error: ", msg>>, message_history>>)
    /\ message_history' = message_history
    /\ tracker' = ToolStateTracker /\ nodes' = <<>>
    /\ pc' = "prompt"
    /\ UNCHANGED <<user_input, runs>> /\ Elsewhere

\* lines 191-193 and 217: a model-request node, or a node of another kind,
\* changes nothing
ObserveModelRequestNode ==
    /\ pc = "iterating" /\ Len(nodes) < MaxNodes
    /\ nodes' = Append(nodes, [kind |-> "ModelRequestNode", parts |-> <<>>])
    /\ UNCHANGED <<message_history, user_input, pc, tracker, console, returned,
                   runs>>
    /\ Elsewhere

\* lines 195-211: a model response with its parts
ObserveCallToolsNode ==
    /\ pc = "iterating" /\ Len(nodes) < MaxNodes
    /\ \E parts \in SeqsUpTo(ResponseParts, MaxParts) :
        \E st \in {ProcessParts(parts, [tracker |-> tracker, console |-> console,
                                        error |-> None])} :
            IF st.error # None
            THEN Fails(st.console, st.error[1])
            ELSE /\ tracker' = st.tracker /\ console' = st.console
                 /\ nodes' = Append(nodes, [kind |-> "CallToolsNode",
                                          parts |-> parts])
                 /\ UNCHANGED <<message_history, user_input, pc, returned, runs>>
                 /\ Elsewhere

\* the agent run raises while the next node is awaited (the model request or
\* a tool dispatch fails)
NodeRaises ==
    /\ pc = "iterating"
    /\ \E msg \in NodeErrors : Fails(console, msg)

\* a cap of one entry less
Committed_short(history, text, output) ==
    LET appended == history \o <<HistoryEntry("user", text),
                                 HistoryEntry("assistant", output)>>
    IN IF Len(appended) > HistoryCap
       THEN SubSeq(appended, Len(appended) - HistoryCap + 2, Len(appended))
       ELSE appended

\* lines 226-230 (agent_test.py lines 136-143): the two entries of the turn,
\* then the cap
Committed(history, text, output) ==
    LET appended == history \o <<HistoryEntry("user", text),
                                 HistoryEntry("assistant", output)>>
    IN IF Len(appended) > HistoryCap
       THEN SubSeq(appended, Len(appended) - HistoryCap + 1, Len(appended))
       ELSE appended

\* lines 213-232 and 272: the End node ends the loop; run_with_iter commits
\* the turn and returns, main stores the pair
ObserveEndNode ==
    /\ pc = "iterating"
    /\ \E complete_output \in {get_complete_output(tracker)} :
        \E history \in {Committed(message_history, user_input, complete_output)} :
            /\ returned' = Some(<<complete_output, history>>)
            /\ message_history' = history
    /\ console' = Append(console, <<"LF", "LF">>)
    /\ tracker' = ToolStateTracker /\ nodes' = <<>>
    /\ pc' = "prompt"
    /\ UNCHANGED <<user_input, runs>> /\ Elsewhere

\* agent_test.py lines 131-132: complete_response += delta, for each delta
RECURSIVE JoinAll(_)
JoinAll(ss) == IF ss = <<>> THEN <<>> ELSE Head(ss) \o JoinAll(Tail(ss))

\* agent_test.py lines 118-127: a prompt is read and the stream is opened
DeltaStartTurn ==
    /\ pc = "delta_prompt" /\ runs < MaxRuns
    /\ \E text \in UserInputs : user_input' = text
    /\ console' = <<<<"Agent: ">>>>
    /\ runs' = runs + 1
    /\ pc' = "delta_streaming"
    /\ UNCHANGED <<message_history, tracker, returned, nodes>> /\ Elsewhere

\* agent_test.py lines 128-143: every delta is printed and accumulated, the
\* two entries are appended and the list is cut to its last 10.  Leaving the
\* stream (line 127) comes after that: when it raises, the except branch
\* (lines 145-148) prints the error and the entries stay
DeltaTurnCommits ==
    /\ pc = "delta_streaming"
    /\ \E deltas \in SeqsUpTo(TextContents, MaxNodes) :
          /\ message_history' =
                 Committed(message_history, user_input, JoinAll(deltas))
          /\ \/ console' = console \o deltas
             \/ \E msg \in NodeErrors :
                   console' = (console \o deltas) \o <<<<"Error: ", msg>>>>
    /\ pc' = "delta_prompt"
    /\ UNCHANGED <<user_input, tracker, returned, nodes, runs>> /\ Elsewhere

\* agent_test.py lines 127-132 and 145-148: opening the stream or a delta
\* raises; nothing is appended
DeltaTurnRaises ==
    /\ pc = "delta_streaming"
    /\ \E deltas \in SeqsUpTo(TextContents, MaxNodes) : \E msg \in NodeErrors :
          console' = (console \o deltas) \o <<<<"Error: ", msg>>>>
    /\ pc' = "delta_prompt"
    /\ UNCHANGED <<message_history, user_input, tracker, returned, nodes, runs>>
    /\ Elsewhere

\* agent_test_iter.py lines 267-269, agent_test.py lines 122-124: the user
\* types exit
UserExitsDriver ==
    /\ pc \in {"prompt", "delta_prompt"}
    /\ pc' = "done"
    /\ UNCHANGED <<message_history, user_input, tracker, console, returned,
                   nodes, runs>>
    /\ Elsewhere

NextDriver ==
    \/ StartTurn \/ ObserveModelRequestNode \/ ObserveCallToolsNode
    \/ NodeRaises \/ ObserveEndNode
    \/ DeltaStartTurn \/ DeltaTurnCommits \/ DeltaTurnRaises
    \/ UserExitsDriver

SpecDriver == InitDriver /\ [][NextDriver]_vars

(***************************************************************************)
(* Claims about the windower and the chat loop                             *)
(***************************************************************************)
Returned == result_messages[1]
NonSystemInput == SelectSeq(messages, LAMBDA m : ~IsSystem(m))

\* C1: whenever the windower is given a history that satisfies the pairing
\* invariant, every ToolReturn part of the returned list has a ToolCall part
\* with the same tool_call_id at or before it in the returned list.
C1_WindowerPairing ==
    (result_messages # None /\ Paired(messages)) => Paired(Returned)

\* C2: the history handed to the model at the start of every turn of the
\* chat loop satisfies the pairing invariant.
C2_HandedHistoryPaired == filtered_messages # None => Paired(filtered_messages[1])

\* C3: with include_tool_messages = true the windower returns at least
\* min(limit, number of non-system input messages) messages (all of them when
\* no limit is given), and the returned list contains the system message
\* whenever the input contains one.
C3_WindowerFloor ==
    (result_messages # None /\ include_tool_messages) =>
        /\ limit # None => Len(Returned) >= Min2(limit[1], Len(NonSystemInput))
        /\ limit = None => Len(Returned) >= Len(NonSystemInput)
        /\ \A i \in 1..Len(messages) : IsSystem(messages[i]) =>
              \E j \in 1..Len(Returned) : IsSystem(Returned[j])

\* C3 witness: a truncating call on a history with a system message
C3_Witness ==
    /\ result_messages # None /\ include_tool_messages
    /\ limit = Some(2) /\ Len(NonSystemInput) = 3
    /\ \E i \in 1..Len(messages) : IsSystem(messages[i])
    /\ Len(Returned) = 3 /\ IsSystem(Returned[1])

(***************************************************************************)
(* Claims about the stdio server                                           *)
(***************************************************************************)
\* classification of a line by its content alone
Parses(l) == "doc" \in DOMAIN l
IsObject(l) == Parses(l) /\ l.doc.t = "dict"
MethodOf(l) ==
    IF IsObject(l) /\ "method" \in DOMAIN l.doc.items THEN l.doc.items["method"]
    ELSE PyNone
IsInitialize(l) == IsObject(l) /\ MethodOf(l) = PyString("initialize")
IsExecute(l) == IsObject(l) /\ MethodOf(l) = PyString("execute_function")
FunctionOf(l) ==
    IF "function_name" \in DOMAIN l.doc.items THEN l.doc.items["function_name"]
    ELSE PyNone
ParametersOf(l) ==
    IF "parameters" \in DOMAIN l.doc.items THEN l.doc.items["parameters"]
    ELSE PyDict(NoItems)
DecodeErrors ==
    {"Expecting value: line 2 column 1 (char 1)",
     "Expecting property name enclosed in double quotes: line 1 column 2 (char 1)"}
InvalidJsonResponses == {Json([error |-> "Invalid JSON: " \o d]) : d \in DecodeErrors}

\* the line being handled, and the step that answers it
Handling == line # None
Answers(r) == delivered' = Append(delivered, r) /\ stdoutBuf' = <<>>
ErrorEnvelope(r) == Parses(r) /\ DOMAIN r.doc = {"error"}
AnsweredWithErrorEnvelope ==
    /\ Len(delivered') = Len(delivered) + 1
    /\ SubSeq(delivered', 1, Len(delivered)) = delivered
    /\ ErrorEnvelope(delivered'[Len(delivered')])
    /\ stdoutBuf' = <<>>

\* the responses and the final filesystem of serving, one after another and
\* each at the time it was read, the lines of log from position i on that
\* satisfy Keep
RECURSIVE Replay(_, _, _, _)
Replay(log, i, Keep(_), f) ==
    IF i > Len(log) THEN [out |-> <<>>, fs |-> f]
    ELSE IF ~Keep(log[i]) THEN Replay(log, i + 1, Keep, f)
    ELSE LET served == Serve(log[i], f, i + 1)
             later == Replay(log, i + 1, Keep, served.fs)
         IN [out |-> <<Json(served.response)>> \o later.out, fs |-> later.fs]

RECURSIVE AnswersToParsed(_, _)
\* the responses given to the lines of ls that parse
AnswersToParsed(ls, out) ==
    IF ls = <<>> \/ out = <<>> THEN <<>>
    ELSE (IF Parses(Head(ls)) THEN <<Head(out)>> ELSE <<>>)
         \o AnswersToParsed(Tail(ls), Tail(out))

AnyLine(l) == TRUE

C4_MalformedLineStep ==
    (Handling /\ ~Parses(line[1])) =>
        /\ \E r \in InvalidJsonResponses : Answers(r)
        /\ state' = "AwaitingLine" /\ line' = None /\ fs' = fs
C4_AsIfNeverSent ==
    line = None =>
        \E f0 \in InitialFilesystems :
            LET without == Replay(readLog, 1, Parses, f0)
            IN /\ without.out = AnswersToParsed(readLog, delivered)
               /\ without.fs = fs
\* C4: a line that fails JSON parsing (a blank line included) gets exactly one
\* response {"error": "Invalid JSON: <detail>"}, the server stays in
\* AwaitingLine, and the other lines are answered, and leave the filesystem,
\* exactly as if the malformed lines had never been sent.
C4_MalformedLine == [][C4_MalformedLineStep]_vars /\ []C4_AsIfNeverSent

\* C4 witness: a malformed first line was answered and a write after it served
C4_Witness ==
    /\ Len(delivered) = 2 /\ ~Parses(readLog[1])
    /\ delivered[1] \in InvalidJsonResponses
    /\ "result" \in DOMAIN delivered[2].doc
    /\ "success" \in DOMAIN delivered[2].doc.result
    /\ state = "AwaitingLine"

C5_OnlyEndOfStream ==
    (state = "AwaitingLine" /\ state' = "ShuttingDown") =>
        (line = None /\ UNCHANGED <<line, readLog, stdoutBuf, delivered, fs>>)
C5_LinesKeepAwaiting == Handling => state' = "AwaitingLine"
C5_Terminal == state = "ShuttingDown" => UNCHANGED serverVars
C6_Counts ==
    /\ stdoutBuf = <<>>
    /\ line = None => Len(delivered) = Len(readLog)
    /\ line # None =>
         /\ Len(delivered) = Len(readLog) - 1
         /\ line[1] = readLog[Len(readLog)]
    /\ \E f0 \in InitialFilesystems :
         Replay(SubSeq(readLog, 1, Len(delivered)), 1, AnyLine, f0).out = delivered
C6_AnswerBeforeNextRead ==
    (readLog' # readLog \/ state' # state) =>
        (line = None /\ Len(delivered) = Len(readLog) /\ stdoutBuf = <<>>)
\* C6: one response per line read, in arrival order; the response to a line
\* is printed and flushed before the next line (or the end of the stream) is
\* read, so no line that was read is left without a response.
C6_OneResponsePerLine == []C6_Counts /\ [][C6_AnswerBeforeNextRead]_vars

\* C6 witness: the stream ended right after a line, which has its response
C6_Witness ==
    /\ state = "ShuttingDown" /\ Len(readLog) = 2 /\ Len(delivered) = 2
    /\ IsExecute(readLog[2]) /\ "result" \in DOMAIN delivered[2].doc

C7_Premise ==
    /\ Handling /\ IsExecute(line[1])
    /\ FunctionOf(line[1]) \notin
         {PyString(n) : n \in {"list_files", "read_file", "write_file", "get_file_info"}}
C7_Step ==
    C7_Premise =>
        /\ Answers(Json([error |-> "Unknown function: " \o PyStr(FunctionOf(line[1]))]))
        /\ fs' = fs /\ state' = "AwaitingLine" /\ line' = None
\* C7: an execute_function request whose function_name is none of the four
\* registered operations (or is missing), with any parameters value, gets the
\* error envelope of the dispatcher; the filesystem is unchanged and the
\* server stays in AwaitingLine.
C7_UnknownFunction == [][C7_Step]_vars

\* C7 witness: an unregistered name with parameters that are no mapping
C7_Witness ==
    /\ Len(delivered) = 1 /\ line = None
    /\ IsExecute(readLog[1])
    /\ FunctionOf(readLog[1]) = PyString("delete_file")
    /\ ParametersOf(readLog[1]) = PyList
    /\ ErrorEnvelope(delivered[1])

SchemaRequired(fn) ==
    CASE fn = PyString("write_file") -> {"file_path", "content"}
      [] fn \in {PyString("read_file"), PyString("get_file_info")} -> {"file_path"}
      [] OTHER -> {}
LacksRequired(l) ==
    \/ ParametersOf(l).t # "dict"
    \/ SchemaRequired(FunctionOf(l)) \ DOMAIN ParametersOf(l).items # {}
C8_Premise ==
    /\ Handling /\ IsExecute(line[1])
    /\ SchemaRequired(FunctionOf(line[1])) # {}
    /\ LacksRequired(line[1])
C8_Step ==
    C8_Premise =>
        /\ AnsweredWithErrorEnvelope
        /\ fs' = fs /\ state' = "AwaitingLine" /\ line' = None
\* C8: an execute_function request for read_file, get_file_info or write_file
\* whose parameters lack a field the tool's schema requires gets an
\* envelope-level error; the handler body does not run, so the filesystem is
\* unchanged, and the server stays in AwaitingLine.
C8_MissingRequired == [][C8_Step]_vars

\* C8 witness: write_file without content, on a filesystem where the write
\* would have had to create the parent directories
C8_Witness ==
    /\ Len(delivered) = 1 /\ line = None
    /\ readLog[1] = Execute(PyString("write_file"),
                            PyDict([file_path |-> PyString("a/b/c")]))
    /\ ErrorEnvelope(delivered[1])
    /\ fs = EmptyFs

C9_Step ==
    (Handling /\ ~IsInitialize(line[1]) /\ ~IsExecute(line[1])) =>
        IF Parses(line[1])
        THEN Answers(Json([error |-> "Unknown method: " \o PyStr(MethodOf(line[1]))]))
        ELSE \E r \in InvalidJsonResponses : Answers(r)
\* C9: a line that is neither an initialize nor an execute_function request
\* is answered with "Unknown method: <method>" when it parses as JSON and with
\* "Invalid JSON: <detail>" when it does not, and with nothing else.
C9_OtherInput == [][C9_Step]_vars

EnvelopeKeys(r) == DOMAIN r.doc \cap {"result", "error"}
\* C10: every response holds exactly one of the keys result and error.
C10_ExactlyOneKey ==
    \A i \in 1..Len(delivered) : Cardinality(EnvelopeKeys(delivered[i])) = 1

\* C10 as amended: every response to a line other than an initialize request
\* holds exactly one of the keys result and error; the response to an
\* initialize request holds neither.
C10_ExactlyOneKeyUnlessInitialize ==
    \A i \in 1..Len(delivered) :
        IF IsInitialize(readLog[i])
        THEN EnvelopeKeys(delivered[i]) = {}
        ELSE Cardinality(EnvelopeKeys(delivered[i])) = 1

\* C10 witness: an initialize response, then a failed dispatch
C10_Witness ==
    /\ Len(delivered) = 2
    /\ IsInitialize(readLog[1]) /\ IsExecute(readLog[2])
    /\ EnvelopeKeys(delivered[2]) = {"error"}

Range(sq) == {sq[k] : k \in 1..Len(sq)}
IsDescriptor(r) ==
    Parses(r) /\ DOMAIN r.doc = {"schema_version", "capabilities", "tool_specs"}
AdvertisedNames(r) == {spec.name : spec \in Range(r.doc.tool_specs)}
AdvertisedRequired(spec) ==
    IF "required" \in DOMAIN spec.input_schema
    THEN Range(spec.input_schema.required) ELSE {}
UnknownFunctionResponse(l) ==
    Json([error |-> "Unknown function: " \o PyStr(FunctionOf(l))])
\* request j supplies exactly the fields that descriptor r requires of its tool
SuppliesExactlyRequired(r, l) ==
    \E spec \in Range(r.doc.tool_specs) :
        /\ FunctionOf(l) = PyString(spec.name)
        /\ ParametersOf(l).t = "dict"
        /\ DOMAIN ParametersOf(l).items = AdvertisedRequired(spec)
\* C11: the response to an initialize request carries schema_version "v1",
\* capabilities ["function_calling"] and tool_specs naming exactly list_files,
\* read_file, write_file and get_file_info; an execute_function request is
\* dispatched (not answered "Unknown function") exactly when its name is
\* advertised; a request supplying exactly the fields a tool's input_schema
\* requires gets no envelope-level error; and the response is the one a server
\* that served nothing before gives.
C11_InitializeDescriptor ==
    \A i \in 1..Len(delivered) : IsInitialize(readLog[i]) =>
        /\ IsDescriptor(delivered[i])
        /\ delivered[i].doc.schema_version = "v1"
        /\ delivered[i].doc.capabilities = <<"function_calling">>
        /\ AdvertisedNames(delivered[i]) =
              {"list_files", "read_file", "write_file", "get_file_info"}
        /\ Len(delivered[i].doc.tool_specs) = 4
        /\ delivered[i] = Replay(<<readLog[i]>>, 1, AnyLine, EmptyFs).out[1]
        /\ \A j \in 1..Len(delivered) : IsExecute(readLog[j]) =>
              /\ (delivered[j] # UnknownFunctionResponse(readLog[j]))
                    <=> (\E n \in AdvertisedNames(delivered[i]) :
                            FunctionOf(readLog[j]) = PyString(n))
              /\ SuppliesExactlyRequired(delivered[i], readLog[j]) =>
                    ~ErrorEnvelope(delivered[j])

\* C11 witness: initialize answered after a write that supplied exactly the
\* required fields and changed the filesystem
C11_Witness ==
    /\ Len(delivered) = 2
    /\ IsExecute(readLog[1]) /\ FunctionOf(readLog[1]) = PyString("write_file")
    /\ DOMAIN delivered[1].doc = {"result"}
    /\ "success" \in DOMAIN delivered[1].doc.result
    /\ fs # EmptyFs /\ fs # SomeFs
    /\ IsInitialize(readLog[2]) /\ IsDescriptor(delivered[2])

\* line l is an execute_function request for tool fn with exactly these
\* parameters
IsCall(l, fn, params) ==
    /\ IsExecute(l) /\ FunctionOf(l) = PyString(fn)
    /\ ParametersOf(l) = PyDict(params)
Succeeded(r) ==
    /\ Parses(r) /\ DOMAIN r.doc = {"result"}
    /\ "success" \in DOMAIN r.doc.result /\ r.doc.result.success = TRUE
\* line l asks for a write to path p
WritesTo(l, p) ==
    /\ IsExecute(l) /\ FunctionOf(l) = PyString("write_file")
    /\ ParametersOf(l).t = "dict"
    /\ Get(ParametersOf(l), "file_path", PyNone) = PyString(p)
\* C12: a successful write_file(p, c) followed, with no write to p in
\* between, by read_file(p) makes the read return content equal to c and size
\* equal to the byte length of c.
C12_RoundTrip ==
    \A i \in 1..Len(delivered) : \A j \in (i + 1)..Len(delivered) :
      \A p \in Paths : \A c \in Contents :
        ( /\ IsCall(readLog[i], "write_file",
                    [file_path |-> PyString(p), content |-> PyString(c)])
          /\ Succeeded(delivered[i])
          /\ IsCall(readLog[j], "read_file", [file_path |-> PyString(p)])
          /\ \A k \in (i + 1)..(j - 1) : ~WritesTo(readLog[k], p) )
        => /\ DOMAIN delivered[j].doc = {"result"}
           /\ {"content", "size"} \subseteq DOMAIN delivered[j].doc.result
           /\ delivered[j].doc.result.content = c
           /\ delivered[j].doc.result.size = ByteLen(c)

\* what a get_file_info request for p reports of filesystem f
InfoView(f, p) ==
    LET r == get_file_info(f, PyString(p)).ret
    IN IF "error" \in DOMAIN r THEN [found |-> FALSE]
       ELSE [found |-> TRUE, size |-> r.size, is_file |-> r.is_file,
             is_dir |-> r.is_dir]
SuccessfulWriteStep ==
    /\ Handling /\ IsExecute(line[1])
    /\ FunctionOf(line[1]) = PyString("write_file")
    /\ Len(delivered') = Len(delivered) + 1
    /\ Succeeded(delivered'[Len(delivered')])
C13_Step ==
    (Handling /\ ~SuccessfulWriteStep) =>
        /\ fs' = fs
        /\ \A p \in Paths : InfoView(fs', p) = InfoView(fs, p)
\* C13: serving any request other than a successful write_file (list_files,
\* read_file, get_file_info, initialize, a malformed or a failing request)
\* leaves the filesystem state unchanged, so that get_file_info reports the
\* same size, is_file and is_dir for every path before and after it.
C13_InfoStable == [][C13_Step]_vars

C14_Step ==
    \A p \in Paths :
        ( /\ Handling
          /\ IsCall(line[1], "list_files", [directory |-> PyString(p)])
          /\ ~exists(fs, p) )
        => Answers(Json([result |->
                            [files |-> {}, directories |-> {}, path |-> p,
                             error |-> "Directory '" \o p \o "' not found"]]))
\* C14: list_files on a path that does not exist is answered with a result
\* envelope whose payload holds files = [], directories = [], path = the
\* requested path and error = "Directory '<path>' not found".
C14_MissingDirectory == [][C14_Step]_vars

\* the write asked for by line l cannot be done on filesystem f: its target
\* is a directory or one of its ancestors is a regular file
WriteBlocked(f, l) ==
    \E p \in Paths : \E c \in Contents :
        /\ IsCall(l, "write_file",
                  [file_path |-> PyString(p), content |-> PyString(c)])
        /\ (is_dir(f, p) \/ \E q \in Ancestors(p) : is_file(f, q))
C15_Step ==
    (Handling /\ WriteBlocked(fs, line[1])) =>
        /\ Len(delivered') = Len(delivered) + 1
        /\ LET r == delivered'[Len(delivered')]
           IN /\ Parses(r) /\ DOMAIN r.doc = {"result"}
              /\ {"success", "message", "error"} \subseteq DOMAIN r.doc.result
              /\ r.doc.result.success = FALSE
        /\ state' = "AwaitingLine" /\ line' = None
\* C15: a write_file whose write fails because the target is a directory or
\* an ancestor is a regular file is answered with a payload holding
\* success = false, a message and an error field, and the server goes on
\* awaiting the next line.
C15_FailedWritePayload == [][C15_Step]_vars

(***************************************************************************)
(* Claims about the handlers                                               *)
(***************************************************************************)
LastCall == call[1]
\* the last call was a write_file that reported success
WroteSuccessfully ==
    /\ call # None /\ LastCall.tool = "write_file" /\ ~LastCall.raised
    /\ "success" \in DOMAIN LastCall.ret /\ LastCall.ret.success = TRUE
Shape(e) == [kind |-> e.kind, content |-> e.content]
C16_Step ==
    (call' # call /\ WroteSuccessfully') =>
        LET p == call'[1].args.file_path.s
            c == call'[1].args.content.s
        IN /\ \A q \in Ancestors(p) : is_dir(disk', q)
           /\ is_file(disk', p) /\ disk'[p].content = c
           /\ \A q \in Paths \ ({p} \cup {a \in Ancestors(p) : ~exists(disk, a)}) :
                 Shape(disk'[q]) = Shape(disk[q])
C17_HandlersTotal == call # None => ~LastCall.raised

\* line l asks for a read_file of something that is no regular file, or for
\* a get_file_info of something that does not exist
HandlerLevelFailure(f, l) ==
    \E p \in Paths :
        \/ IsCall(l, "read_file", [file_path |-> PyString(p)]) /\ ~is_file(f, p)
        \/ IsCall(l, "get_file_info", [file_path |-> PyString(p)])
              /\ ~exists(f, p)
ErrorPayload(r) ==
    /\ Parses(r) /\ DOMAIN r.doc = {"result"}
    /\ "error" \in DOMAIN r.doc.result
    /\ DOMAIN r.doc.result \cap {"content", "size", "name"} = {}
C18_Step ==
    (Handling /\ HandlerLevelFailure(fs, line[1])) =>
        /\ Len(delivered') = Len(delivered) + 1
        /\ ErrorPayload(delivered'[Len(delivered')])
        /\ fs' = fs
\* C18: a read_file on an absent path or on something that is no regular
\* file, and a get_file_info on an absent path, are answered with a result
\* envelope whose payload holds the error and no content, size or name field,
\* never with an envelope-level error, and leave the filesystem unchanged.
C18_HandlerLevelFailure == [][C18_Step]_vars

\* C18 witness: a read of a directory, then a get_file_info of an absent path
C18_Witness ==
    /\ Len(delivered) = 2 /\ fs = SomeFs
    /\ IsCall(readLog[1], "read_file", [file_path |-> PyString("a")])
    /\ delivered[1] = Json([result |-> [error |-> "'a' is not a file"]])
    /\ IsCall(readLog[2], "get_file_info", [file_path |-> PyString("a/b/c")])
    /\ delivered[2] = Json([result |-> [error |-> "File 'a/b/c' not found"]])

(***************************************************************************)
(* Claims about the driver                                                 *)
(***************************************************************************)
ReturnedOutput == returned[1][1]
ReturnedHistory == returned[1][2]
IsToolCallEntry(e, id) ==
    /\ {"part_kind", "tool_call_id"} \subseteq DOMAIN e
    /\ e.part_kind = "tool-call" /\ e.tool_call_id = id
IsToolReturnEntry(e, id) ==
    /\ {"part_kind", "tool_call_id"} \subseteq DOMAIN e
    /\ e.part_kind = "tool-return" /\ e.tool_call_id = id
\* the history returned at the End node: the prior history, the entry of the
\* user's input if the driver records one, the assistant's text, then one
\* call and one return entry per recorded tool call, in call order
C19_Post ==
    LET calls == tracker.tool_calls
        hist == ReturnedHistory'
        n == Len(message_history)
    IN \E a \in {n + 1, n + 2} :
          /\ Len(hist) = a + 2 * Len(calls)
          /\ SubSeq(hist, 1, n) = message_history
          /\ a = n + 2 => hist[n + 1] = HistoryEntry("user", user_input)
          /\ hist[a] = HistoryEntry("assistant", get_complete_output(tracker))
          /\ \A c \in 1..Len(calls) :
                /\ IsToolCallEntry(hist[a + 2 * c - 1], calls[c].key)
                /\ IsToolReturnEntry(hist[a + 2 * c], calls[c].key)
\* C19: at the End node of a successful turn the history returned by
\* run_with_iter is the prior history extended with one assistant text
\* message followed by a ToolCall/ToolReturn pair for every tool call the
\* tracker recorded during the turn, in call order.
C19_CommittedHistory == [][ObserveEndNode => C19_Post]_vars

ErrorOutputs ==
    {<<"Error: ", msg>> : msg \in NodeErrors \cup {"EOF while parsing a string"}}
FailedTurnStep ==
    /\ pc = "iterating" /\ pc' = "prompt"
    /\ returned' # None /\ ReturnedOutput' \in ErrorOutputs
C20_Step ==
    FailedTurnStep =>
        /\ ReturnedHistory' = message_history
        /\ message_history' = message_history
\* C20: when a step of a turn raises, at any node and after any number of
\* text or tool-call parts, run_with_iter returns the history that was
\* passed in: nothing of the failed turn is appended and nothing is cut off.
C20_FailedTurnKeepsHistory == [][C20_Step]_vars

\* C20 witness: a turn on a history longer than the cap that printed a text
\* and recorded a tool call before it failed
C20_Witness ==
    /\ returned # None /\ ReturnedOutput \in ErrorOutputs
    /\ Len(ReturnedHistory) = HistoryCap + 1
    /\ Len(console) = 5
    /\ console[2] = <<" ", "H", "i">>
    /\ console[3] = <<"[Tool Call: ", "read_file", "]">>

\* a node is taken from the agent run
NodeObserved == ObserveModelRequestNode \/ ObserveCallToolsNode \/ ObserveEndNode
Keys(d) == {d[i].key : i \in 1..Len(d)}
\* C21: whenever the driver takes a further node from the agent run, the End
\* node included, every tool_call_id recorded in the tracker's tool_calls has
\* an entry in its tool_results.
C21_ResultsDeposited ==
    [][NodeObserved => Keys(tracker.tool_calls) \subseteq Keys(tracker.tool_results)]_vars

C23_Step ==
    /\ (TurnTimesOut \/ TurnFails) => InSession'
    /\ InSession => outcome' # StartupTimeoutText
\* C23: after a turn timeout or any other turn error the chat loop is still
\* running and takes the next input; and once the servers have started, the
\* startup timeout does not end the session.
C23_TurnErrorsRecoverable == [][C23_Step]_vars

\* text occurs in out as a contiguous part
Contains(out, text) ==
    \E i \in 1..(Len(out) - Len(text) + 1) :
        SubSeq(out, i, i + Len(text) - 1) = text
C24_Step ==
    (FailedTurnStep /\ tracker.final_output # <<>>) =>
        /\ Contains(ReturnedOutput', tracker.final_output)
        /\ \E e \in ErrorOutputs : Contains(ReturnedOutput', e)
\* C24: when a step raises after text was accumulated in the turn, the output
\* run_with_iter returns contains that text, and the error as text with the
\* prefix "Error: ".
C24_PartialOutputReturned == [][C24_Step]_vars

IsBlank(c) == \A i \in 1..Len(c) : c[i] \in Whitespace
\* the non-blank text parts of a sequence of parts, in part order
NonBlankTexts(parts) ==
    SelectSeq(parts, LAMBDA q : q.part_kind = "text" /\ ~IsBlank(q.content))
\* what the driver prints for a sequence of parts: each non-blank text, and
\* an announcement at the place of each tool call
RECURSIVE Printed(_)
Printed(parts) ==
    IF parts = <<>> THEN <<>>
    ELSE (IF Head(parts).part_kind = "tool-call"
          THEN <<<<"[Tool Call: ", Head(parts).tool_name, "]">>>>
          ELSE IF IsBlank(Head(parts).content) THEN <<>>
          ELSE <<Head(parts).content>>)
         \o Printed(Tail(parts))
\* all parts of the nodes observed so far in the turn, in node order
RECURSIVE PartsOf(_)
PartsOf(ns) == IF ns = <<>> THEN <<>> ELSE Head(ns).parts \o PartsOf(Tail(ns))
TextOfStream ==
    LET texts == NonBlankTexts(PartsOf(nodes))
    IN JoinAll([i \in 1..Len(texts) |-> texts[i].content])
\* what the turn has printed after the prompt "Agent: "
Emitted == JoinAll(Tail(console))

Remaining == non_system_messages(messages, include_tool_messages)
\* the ToolCall a ToolReturn of message i answers: the nearest message at or
\* before i holding a ToolCall part with that id
CallsBefore(rest, i, id) == {j \in CallIndices(rest, id) : j <= i}
\* the last lim messages together with, for each ToolReturn in those, the
\* message holding its ToolCall
WindowWithCalls(rest, lim) ==
    LET last == {i \in 1..Len(rest) : i > Len(rest) - lim}
        answered(i) ==
            {id \in ToolCallIds :
                /\ \E k \in 1..Len(rest[i].parts) :
                      /\ rest[i].parts[k].kind = "ToolReturn"
                      /\ rest[i].parts[k].tool_call_id = id
                /\ CallsBefore(rest, i, id) # {}}
    IN last \cup UNION {{Max(CallsBefore(rest, i, id)) : id \in answered(i)} :
                          i \in last}

\* C26: for every limit that is set (any integer >= 0) with more than limit
\* messages remaining after the optional tool-message filter, the windower
\* returns exactly the system message (if any), then in their original order
\* the last limit remaining messages together with, for each ToolReturn in
\* those, the message holding its ToolCall, and no other message.
C26_ExactWindow ==
    (/\ result_messages # None /\ limit # None
     /\ limit[1] >= 0 /\ Len(Remaining) > limit[1]) =>
        Returned = system_message(messages)
                   \o Materialize(Remaining, 1, WindowWithCalls(Remaining, limit[1]))

\* C27: the windower is idempotent: applied to its own output with the same
\* limit and flag it returns that output unchanged.
C27_Idempotent ==
    result_messages # None =>
        filtered_message_history(Returned, limit, include_tool_messages) = Returned

\* C27 witness: a window of one message that the repair extended with the
\* call message, so that the output is longer than the limit when it is
\* windowed again
C27_Witness ==
    /\ result_messages # None /\ limit = Some(1) /\ include_tool_messages
    /\ Len(messages) = 4 /\ IsSystem(messages[1])
    /\ Len(Returned) = 3
    /\ Returned[2] = ModelMessage(<<ToolCallPart("a")>>)
    /\ Returned[3] = ModelMessage(<<ToolReturnPart("a")>>)
    /\ filtered_message_history(Returned, limit, include_tool_messages) = Returned

\* the number of ToolReturn parts among parts
RECURSIVE ReturnParts(_)
ReturnParts(parts) ==
    IF parts = <<>> THEN 0
    ELSE (IF Head(parts).kind = "ToolReturn" THEN 1 ELSE 0) + ReturnParts(Tail(parts))
\* the parts of all messages of ms, in order
RECURSIVE AllParts(_)
AllParts(ms) == IF ms = <<>> THEN <<>> ELSE Head(ms).parts \o AllParts(Tail(ms))
\* the last lim messages of rest
LastMessages(rest, lim) == SubSeq(rest, Len(rest) - lim + 1, Len(rest))
ReturnsInLast(rest, lim) == ReturnParts(AllParts(LastMessages(rest, lim)))
RetainedNonSystem == Len(SelectSeq(Returned, LAMBDA m : ~IsSystem(m)))

Alternates(h) ==
    /\ Len(h) <= HistoryCap /\ Len(h) % 2 = 0
    /\ \A i \in 1..Len(h) : h[i].role = (IF i % 2 = 1 THEN "user" ELSE "assistant")
\* new is old with one user entry and one assistant entry added at the end,
\* less the oldest entries beyond the cap
AddsOnePair(old, new) ==
    /\ Len(new) = Min2(Len(old) + 2, HistoryCap)
    /\ new[Len(new) - 1] = HistoryEntry("user", user_input)
    /\ new[Len(new)].role = "assistant"
    /\ \A i \in 1..(Len(new) - 2) : new[i] = old[Len(old) + 2 - Len(new) + i]

\* C29: in both chat loops every step, of a successful or a failed turn,
\* takes a history that has at most 10 entries, even length and alternates
\* user, assistant to one that does; the empty history the loops start from
\* is such a history.  A successful turn adds one user and one assistant
\* entry, and the cut to the last 10 removes a user entry with its reply.
C29_HistoryAlternates ==
    [][Alternates(message_history) =>
          /\ Alternates(message_history')
          /\ (ObserveEndNode \/ DeltaTurnCommits)
                => AddsOnePair(message_history, message_history')
          /\ ~(ObserveEndNode \/ DeltaTurnCommits)
                => message_history' = message_history]_vars

\* C29 witness: a turn of the delta loop committed on a history of 10
\* entries: the oldest user entry and its reply are gone, the turn's two
\* entries are last
C29_Witness ==
    /\ pc = "delta_prompt" /\ runs = 1
    /\ Len(message_history) = HistoryCap /\ Alternates(message_history)
    /\ message_history[HistoryCap - 1] = HistoryEntry("user", <<"l", "s">>)
    /\ message_history[HistoryCap].content = <<" ", "H", "i", " ", "H", "i">>
    /\ message_history[HistoryCap - 2] = HistoryEntry("assistant", <<"o", "k">>)

\* the server serves a write_file request and answers it with an error
FailedWriteStep ==
    /\ Handling /\ IsExecute(line[1])
    /\ FunctionOf(line[1]) = PyString("write_file")
    /\ Len(delivered') = Len(delivered) + 1
    /\ ~Succeeded(delivered'[Len(delivered')])
\* C30: a write_file call that returns an error leaves the filesystem exactly
\* as it was before the call: no file content is changed and no parent
\* directory is created, whatever file_path and content values the request
\* carries.
C30_FailedWriteNoEffect == [][FailedWriteStep => fs' = fs]_vars

====
